---- MODULE Spec2Model ----
(***************************************************************************)
(* Model of controllers/gatekeeper_controller.go: the Gatekeeper           *)
(* reconciler (asset selection, override pipeline, create-or-update of     *)
(* every selected asset against the cluster store).                        *)
(*                                                                         *)
(* Strings of the program that the code splits or concatenates (container  *)
(* arguments) are sequences of tokens; the token "=" is the character the  *)
(* code splits on.  A field of an unstructured document is a record        *)
(* [st, v]: st = "absent" (no such key), "badtype" (a value of another     *)
(* type), "ok" (v is the value).                                           *)
(***************************************************************************)
EXTENDS Integers, Sequences, FiniteSets, TLC

VARIABLES
    gatekeeper,   \* the Gatekeeper custom resource in the cluster (Nil when there is none)
    platform,     \* GatekeeperReconciler.PlatformName
    catalog,      \* which build of the asset catalog util.GetManifest reads
    store,        \* the objects of the cluster, a set of documents
    pass,         \* per worker: the Reconcile call in progress
    calls,        \* per worker: what the pass in progress did to each asset
    prev,         \* what the last finished pass left (history)
    budget,       \* passes, collaborator failures and user edits still to come
    argCase,      \* one application of setContainerArg (SpecArg)
    ovCase        \* crOverrides applied to a document, then to its result (SpecOverride)

vars == <<gatekeeper, platform, catalog, store, pass, calls, prev, budget, argCase, ovCase>>

----------------------------------------------------------------------------
(* Bounds of the model *)

MaxPasses == 2
MaxFaults == 1
MaxEdits == 1
MaxArgs == 3
MaxRules == 3
MaxMissing == 2

----------------------------------------------------------------------------
(* Constants of the program: gatekeeper_controller.go:45-100 *)

(* mutant: the request name is compared with another name *)
anotherCrName == "other"

defaultGatekeeperCrName == "gatekeeper"
NamespaceFile == "v1_namespace_gatekeeper-system.yaml"
ConfigCRDFile == "apiextensions.k8s.io_v1beta1_customresourcedefinition_configs.config.gatekeeper.sh.yaml"
ConstraintTemplateCRDFile == "apiextensions.k8s.io_v1beta1_customresourcedefinition_constrainttemplates.templates.gatekeeper.sh.yaml"
ConstraintTemplatePodStatusCRDFile == "apiextensions.k8s.io_v1beta1_customresourcedefinition_constrainttemplatepodstatuses.status.gatekeeper.sh.yaml"
ConstraintPodStatusCRDFile == "apiextensions.k8s.io_v1beta1_customresourcedefinition_constraintpodstatuses.status.gatekeeper.sh.yaml"
AssignCRDFile == "apiextensions.k8s.io_v1beta1_customresourcedefinition_assign.mutations.gatekeeper.sh.yaml"
AssignMetadataCRDFile == "apiextensions.k8s.io_v1beta1_customresourcedefinition_assignmetadata.mutations.gatekeeper.sh.yaml"
AuditFile == "apps_v1_deployment_gatekeeper-audit.yaml"
WebhookFile == "apps_v1_deployment_gatekeeper-controller-manager.yaml"
ClusterRoleFile == "rbac.authorization.k8s.io_v1_clusterrole_gatekeeper-manager-role.yaml"
ClusterRoleBindingFile == "rbac.authorization.k8s.io_v1_clusterrolebinding_gatekeeper-manager-rolebinding.yaml"
RoleFile == "rbac.authorization.k8s.io_v1_role_gatekeeper-manager-role.yaml"
OpenshiftRoleFile == "openshift/rbac.authorization.k8s.io_v1_role_gatekeeper-manager-role.yaml"
RoleBindingFile == "rbac.authorization.k8s.io_v1_rolebinding_gatekeeper-manager-rolebinding.yaml"
ServerCertFile == "v1_secret_gatekeeper-webhook-server-cert.yaml"
ServiceAccountFile == "v1_serviceaccount_gatekeeper-admin.yaml"
PodSecurityPolicyFile == "policy_v1beta1_podsecuritypolicy_gatekeeper-admin.yaml"
ServiceFile == "v1_service_gatekeeper-webhook-service.yaml"
ValidatingWebhookConfiguration == "admissionregistration.k8s.io_v1beta1_validatingwebhookconfiguration_gatekeeper-validating-webhook-configuration.yaml"
MutatingWebhookConfiguration == "admissionregistration.k8s.io_v1beta1_mutatingwebhookconfiguration_gatekeeper-mutating-webhook-configuration.yaml"
ValidationGatekeeperWebhook == "validation.gatekeeper.sh"
managerContainer == "manager"
LogLevelArg == <<"--log-level">>
AuditIntervalArg == <<"--audit-interval">>
ConstraintViolationLimitArg == <<"--constraint-violations-limit">>
AuditFromCacheArg == <<"--audit-from-cache">>
AuditChunkSizeArg == <<"--audit-chunk-size">>
EmitAuditEventsArg == <<"--emit-audit-events">>
EmitAdmissionEventsArg == <<"--emit-admission-events">>
ExemptNamespaceArg == <<"--exempt-namespace">>
EnableMutationArg == <<"--enable-mutation">>

orderedStaticAssets ==
    << NamespaceFile,
       ConfigCRDFile,
       ConstraintTemplateCRDFile,
       ConstraintTemplatePodStatusCRDFile,
       ConstraintPodStatusCRDFile,
       AssignCRDFile,
       AssignMetadataCRDFile,
       ServerCertFile,
       ServiceAccountFile,
       PodSecurityPolicyFile,
       ClusterRoleFile,
       ClusterRoleBindingFile,
       RoleFile,
       RoleBindingFile,
       AuditFile,
       WebhookFile,
       ServiceFile,
       ValidatingWebhookConfiguration,
       MutatingWebhookConfiguration >>

mutatingStaticAssets ==
    << AssignCRDFile, AssignMetadataCRDFile, MutatingWebhookConfiguration >>

(* A Go pointer: Nil is the nil pointer, Ptr(x) points at x *)
Nil == <<>>
Ptr(x) == <<x>>
Deref(p) == p[1]

(* operatorv1alpha1.WebhookMode *)
WebhookEnabled == "Enabled"
WebhookDisabled == "Disabled"
WebhookModes == {Nil, Ptr(WebhookEnabled), Ptr(WebhookDisabled)}

Range(s) == {s[i] : i \in DOMAIN s}

----------------------------------------------------------------------------
(* Asset selection: gatekeeper_controller.go:218-258 *)

(* mutant: a nil mode counts as enabled *)
mutatingWebhookEnabledByDefault(mode) == mode = Nil \/ Deref(mode) = WebhookEnabled

mutatingWebhookEnabled(mode) == mode # Nil /\ Deref(mode) = WebhookEnabled

validatingWebhookEnabled(spec) ==
    spec.ValidatingWebhook = Nil \/ Deref(spec.ValidatingWebhook) = WebhookEnabled

(* mutant: the kept assets are collected in front of the output *)
RECURSIVE getSubsetOfAssetsPrepending(_, _)
getSubsetOfAssetsPrepending(inputAssets, assetsToRemove) ==
    IF inputAssets = <<>> THEN <<>>
    ELSE LET i == Head(inputAssets)
             addAsset == ~(\E j \in DOMAIN assetsToRemove : i = assetsToRemove[j])
             rest == getSubsetOfAssetsPrepending(Tail(inputAssets), assetsToRemove)
         IN IF addAsset THEN rest \o <<i>> ELSE rest

RECURSIVE getSubsetOfAssets(_, _)
getSubsetOfAssets(inputAssets, assetsToRemove) ==
    IF inputAssets = <<>> THEN <<>>
    ELSE LET i == Head(inputAssets)
             addAsset == ~(\E j \in DOMAIN assetsToRemove : i = assetsToRemove[j])
             rest == getSubsetOfAssets(Tail(inputAssets), assetsToRemove)
         IN IF addAsset THEN <<i>> \o rest ELSE rest

(* mutant: the toggles are not looked at *)
getStaticAssetsIgnoringToggles(spec) == orderedStaticAssets

getStaticAssets(spec) ==
    LET assets0 == orderedStaticAssets
        assets1 == IF ~validatingWebhookEnabled(spec)
                   THEN getSubsetOfAssets(assets0, <<ValidatingWebhookConfiguration>>)
                   ELSE assets0
        assets2 == IF ~mutatingWebhookEnabled(spec.MutatingWebhook)
                   THEN getSubsetOfAssets(assets1, mutatingStaticAssets)
                   ELSE assets1
    IN assets2

----------------------------------------------------------------------------
(* Unstructured documents.  Every field read through an unstructured.Nested*
   accessor is a record [st, v].                                             *)

Val(x) == [st |-> "ok", v |-> x]
AbsentSeq == [st |-> "absent", v |-> <<>>]
BadSeq == [st |-> "badtype", v |-> <<>>]
AbsentSet == [st |-> "absent", v |-> {}]
AbsentInt == [st |-> "absent", v |-> -1]

(* unstructured.NestedSlice, NestedStringSlice, NestedString: (value, found, err) *)
Nested(f) == [val |-> f.v, found |-> f.st = "ok", err |-> f.st = "badtype"]

(* github.com/pkg/errors Wrapf: "If err is nil, Wrapf returns nil."  An error
   value is modelled by whether it is non-nil.                                *)
Wrapf(err) == err

(* The result of a function that mutates obj and returns an error *)
Ok(o) == [obj |-> o, err |-> FALSE]
Ret(o, e) == [obj |-> o, err |-> e]
Then(r, F(_)) == IF r.err THEN r ELSE F(r.obj)

Min(S) == CHOOSE x \in S : \A y \in S : x <= y

(* util.ToArg and util.FromArg: "name=value"; the name is the text before the
   first '=' (strings.Split(arg, "=")[0]) *)
RECURSIVE BeforeEq(_)
BeforeEq(arg) ==
    IF arg = <<>> \/ Head(arg) = "=" THEN <<>>
    ELSE <<Head(arg)>> \o BeforeEq(Tail(arg))

ToArg(name, value) == name \o <<"=">> \o value

FromArg(arg) ==
    LET key == BeforeEq(arg)
        rest == SubSeq(arg, Len(key) + 2, Len(arg))
    IN [key |-> key, value |-> BeforeEq(rest)]

(* util.ToMap: a typed API value as a generic map *)
ToMap(x) == <<"map", x>>

----------------------------------------------------------------------------
(* Container setters: gatekeeper_controller.go:704-761 *)

(* mutant: the loop stops at the first entry with the name *)
setArgsFirstOnly(args, argName, argValue) ==
    LET hits == {i \in DOMAIN args : FromArg(args[i]).key = argName}
    IN IF hits = {} THEN Append(args, ToArg(argName, argValue))
       ELSE [args EXCEPT ![Min(hits)] = ToArg(argName, argValue)]

(* The loop of setContainerArg over the argument list *)
setArgs(args, argName, argValue) ==
    LET exists == \E i \in DOMAIN args : FromArg(args[i]).key = argName
        replaced == [i \in DOMAIN args |->
                        IF FromArg(args[i]).key = argName
                        THEN ToArg(argName, argValue)
                        ELSE args[i]]
    IN IF ~exists THEN Append(replaced, ToArg(argName, argValue)) ELSE replaced

(* mutant: the argument is appended whether or not the list has it *)
setContainerArgFnAppending(container, containerName, argName, argValue) ==
    LET got == Nested(container.args)
    IN IF ~got.found \/ got.err
       THEN Ret(container, Wrapf(got.err))
       ELSE Ok([container EXCEPT !.args = Val(Append(got.val, ToArg(argName, argValue)))])

setContainerArgFn(container, containerName, argName, argValue) ==
    LET got == Nested(container.args)
    IN IF ~got.found \/ got.err
       THEN Ret(container, Wrapf(got.err))
       ELSE Ok([container EXCEPT !.args = Val(setArgs(got.val, argName, argValue))])

setImage(container, spec) ==
    IF spec.Image = Nil THEN Ok(container)
    ELSE LET image == Deref(spec.Image)
             c1 == IF image.Image # Nil
                   THEN [container EXCEPT !.image = Val(Deref(image.Image))]
                   ELSE container
             c2 == IF image.ImagePullPolicy # Nil
                   THEN [c1 EXCEPT !.imagePullPolicy = Val(Deref(image.ImagePullPolicy))]
                   ELSE c1
         IN Ok(c2)

(* The closures handed to setContainerAttrWithFn, as the values they capture:
   setContainerArg (gatekeeper_controller.go:743-760), setImage by
   containerOverrides (518-524), the resources setter of setResources
   (694-700) *)
ArgClosure(containerName, argName, argValue) ==
    [fn |-> "setContainerArg", containerName |-> containerName,
     argName |-> argName, argValue |-> argValue]
ImageClosure(spec) == [fn |-> "setImage", spec |-> spec]
ResourcesClosure(resources) == [fn |-> "setResources", resources |-> resources]

(* containerFn(container): the call of a closure *)
CallContainerFn(containerFn, container) ==
    CASE containerFn.fn = "setContainerArg" ->
            setContainerArgFn(container, containerFn.containerName,
                              containerFn.argName, containerFn.argValue)
      [] containerFn.fn = "setImage" -> setImage(container, containerFn.spec)
      [] containerFn.fn = "setResources" ->
            Ok([container EXCEPT !.resources = Val(ToMap(Deref(containerFn.resources)))])

setContainerAttrWithFn(obj, containerName, containerFn) ==
    LET got == Nested(obj.containers)
        containers == got.val
        nameOf(i) == Nested(containers[i].name)
        \* the outcome of the loop body for container i
        body(i) ==
            IF nameOf(i).err \/ ~nameOf(i).found
            THEN [ret |-> TRUE, err |-> Wrapf(nameOf(i).err), c |-> containers[i]]
            ELSE IF nameOf(i).val = containerName
                 THEN LET r == CallContainerFn(containerFn, containers[i])
                      IN [ret |-> r.err, err |-> r.err, c |-> r.obj]
                 ELSE [ret |-> FALSE, err |-> FALSE, c |-> containers[i]]
        returns == {i \in DOMAIN containers : body(i).ret}
    IN IF got.err \/ ~got.found
       THEN Ret(obj, Wrapf(got.err))
       ELSE IF returns # {}
            THEN Ret(obj, body(Min(returns)).err)
            ELSE Ok([obj EXCEPT !.containers =
                        Val([i \in DOMAIN containers |-> body(i).c])])

setContainerArg(obj, containerName, argName, argValue) ==
    setContainerAttrWithFn(obj, containerName, ArgClosure(containerName, argName, argValue))

----------------------------------------------------------------------------
(* RBAC rule removal: gatekeeper_controller.go:450-514.  apiGroups[0] and
   resources[0] need a non-empty list: the documents of the model hold no
   empty apiGroups or resources list.                                        *)

matchGatekeeperMutatingRBACRule(rule) ==
    LET apiGroups == Nested(rule.apiGroups)
    IN IF ~apiGroups.found \/ apiGroups.err
       THEN [found |-> FALSE, err |-> Wrapf(apiGroups.err)]
       ELSE [found |-> apiGroups.val[1] = "mutations.gatekeeper.sh", err |-> FALSE]

matchMutatingWebhookConfigurationRBACRule(rule) ==
    LET apiGroups == Nested(rule.apiGroups)
        resources == Nested(rule.resources)
    IN IF ~apiGroups.found \/ apiGroups.err
       THEN [found |-> FALSE, err |-> Wrapf(apiGroups.err)]
       ELSE IF ~resources.found \/ resources.err
            THEN [found |-> FALSE, err |-> Wrapf(resources.err)]
            ELSE [found |-> /\ apiGroups.val[1] = "admissionregistration.k8s.io"
                            /\ resources.val[1] = "mutatingwebhookconfigurations",
                  err |-> FALSE]

(* matchRuleFn(rule): the call of one of matchMutatingRBACRuleFns *)
CallMatchRuleFn(fn, rule) ==
    CASE fn = "matchGatekeeperMutatingRBACRule" -> matchGatekeeperMutatingRBACRule(rule)
      [] fn = "matchMutatingWebhookConfigurationRBACRule" ->
            matchMutatingWebhookConfigurationRBACRule(rule)

(* mutant: every rule the matcher names is removed *)
removeRBACRuleAllMatches(obj, fn) ==
    LET got == Nested(obj.rules)
        rules == got.val
    IN IF got.err \/ ~got.found
       THEN Ret(obj, Wrapf(got.err))
       ELSE Ok([obj EXCEPT !.rules =
                   Val(SelectSeq(rules, LAMBDA r : ~CallMatchRuleFn(fn, r).found))])

removeRBACRule(obj, fn) ==
    LET got == Nested(obj.rules)
        rules == got.val
        matchRuleFn(rule) == CallMatchRuleFn(fn, rule)
        \* the rules at which the loop ends: an error, or the first match
        ends == {i \in DOMAIN rules : matchRuleFn(rules[i]).err \/ matchRuleFn(rules[i]).found}
        i0 == Min(ends)
    IN IF got.err \/ ~got.found
       THEN Ret(obj, Wrapf(got.err))
       ELSE IF ends = {}
            THEN Ok([obj EXCEPT !.rules = Val(rules)])
            ELSE IF matchRuleFn(rules[i0]).err
                 THEN Ret(obj, TRUE)
                 ELSE Ok([obj EXCEPT !.rules =
                             Val(SubSeq(rules, 1, i0 - 1) \o SubSeq(rules, i0 + 1, Len(rules)))])

removeMutatingRBACRules(obj) ==
    Then(removeRBACRule(obj, "matchGatekeeperMutatingRBACRule"),
         LAMBDA o : removeRBACRule(o, "matchMutatingWebhookConfigurationRBACRule"))

----------------------------------------------------------------------------
(* Setters of one specification field: gatekeeper_controller.go:528-719 *)

(* mutant: an unset replica count is written as the zero value *)
setReplicasZeroWhenUnset(obj, replicas) ==
    Ok([obj EXCEPT !.replicas = Val(IF replicas # Nil THEN Deref(replicas) ELSE 0)])

setReplicas(obj, replicas) ==
    IF replicas # Nil THEN Ok([obj EXCEPT !.replicas = Val(Deref(replicas))]) ELSE Ok(obj)

removeAnnotations(obj) == Ok([obj EXCEPT !.annotations = Val({})])

setLogLevel(obj, logLevel) ==
    IF logLevel # Nil
    THEN setContainerArg(obj, managerContainer, LogLevelArg, <<Deref(logLevel)>>)
    ELSE Ok(obj)

(* metav1.Duration in milliseconds: Round(time.Second).Seconds(), printed *)
RoundSeconds(ms) == (ms + 500) \div 1000

setAuditInterval(obj, auditInterval) ==
    IF auditInterval # Nil
    THEN setContainerArg(obj, managerContainer, AuditIntervalArg,
                         <<ToString(RoundSeconds(Deref(auditInterval)))>>)
    ELSE Ok(obj)

setConstraintViolationLimit(obj, constraintViolationLimit) ==
    IF constraintViolationLimit # Nil
    THEN setContainerArg(obj, managerContainer, ConstraintViolationLimitArg,
                         <<ToString(Deref(constraintViolationLimit))>>)
    ELSE Ok(obj)

setAuditFromCache(obj, auditFromCache) ==
    IF auditFromCache # Nil
    THEN setContainerArg(obj, managerContainer, AuditFromCacheArg,
                         IF Deref(auditFromCache) = "Enabled" THEN <<"true">> ELSE <<"false">>)
    ELSE Ok(obj)

setAuditChunkSize(obj, auditChunkSize) ==
    IF auditChunkSize # Nil
    THEN setContainerArg(obj, managerContainer, AuditChunkSizeArg,
                         <<ToString(Deref(auditChunkSize))>>)
    ELSE Ok(obj)

setEmitEvents(obj, argName, emitEvents) ==
    IF emitEvents # Nil
    THEN setContainerArg(obj, managerContainer, argName,
                         IF Deref(emitEvents) = "Enabled" THEN <<"true">> ELSE <<"false">>)
    ELSE Ok(obj)

setEnableMutation(obj) ==
    setContainerArg(obj, managerContainer, EnableMutationArg, <<"true">>)

(* webhookFn(webhook): the closure of setFailurePolicy or of
   setNamespaceSelector, as the field it sets and the value it captures *)
CallWebhookFn(webhookFn, webhook) ==
    CASE webhookFn.fn = "setFailurePolicy" ->
            [webhook EXCEPT !.failurePolicy = Val(webhookFn.value)]
      [] webhookFn.fn = "setNamespaceSelector" ->
            [webhook EXCEPT !.namespaceSelector = Val(ToMap(webhookFn.value))]

setWebhookConfigurationWithFn(obj, webhookName, webhookFn) ==
    LET got == Nested(obj.webhooks)
        webhooks == got.val
    IN IF got.err \/ ~got.found
       THEN Ret(obj, Wrapf(got.err))
       ELSE Ok([obj EXCEPT !.webhooks =
                   Val([i \in DOMAIN webhooks |->
                           IF webhooks[i].name = webhookName
                           THEN CallWebhookFn(webhookFn, webhooks[i])
                           ELSE webhooks[i]])])

setFailurePolicy(obj, failurePolicy) ==
    IF failurePolicy = Nil THEN Ok(obj)
    ELSE setWebhookConfigurationWithFn(obj, ValidationGatekeeperWebhook,
            [fn |-> "setFailurePolicy", value |-> Deref(failurePolicy)])

setNamespaceSelector(obj, namespaceSelector) ==
    IF namespaceSelector = Nil THEN Ok(obj)
    ELSE setWebhookConfigurationWithFn(obj, ValidationGatekeeperWebhook,
            [fn |-> "setNamespaceSelector", value |-> Deref(namespaceSelector)])

setAffinity(obj, spec) ==
    IF spec.Affinity # Nil
    THEN Ok([obj EXCEPT !.affinity = Val(ToMap(Deref(spec.Affinity)))])
    ELSE Ok(obj)

setNodeSelector(obj, spec) ==
    IF spec.NodeSelector # Nil
    THEN Ok([obj EXCEPT !.nodeSelector = Val(Deref(spec.NodeSelector))])
    ELSE Ok(obj)

setPodAnnotations(obj, spec) ==
    IF spec.PodAnnotations # Nil
    THEN Ok([obj EXCEPT !.annotations = Val(Deref(spec.PodAnnotations))])
    ELSE Ok(obj)

setTolerations(obj, spec) ==
    IF spec.Tolerations # Nil
    THEN Ok([obj EXCEPT !.tolerations =
                Val([i \in DOMAIN Deref(spec.Tolerations) |-> ToMap(Deref(spec.Tolerations)[i])])])
    ELSE Ok(obj)

setResources(obj, resources) ==
    IF resources # Nil
    THEN setContainerAttrWithFn(obj, managerContainer, ResourcesClosure(resources))
    ELSE Ok(obj)

containerOverrides(obj, spec) ==
    setContainerAttrWithFn(obj, managerContainer, ImageClosure(spec))

----------------------------------------------------------------------------
(* Namespace injection: gatekeeper_controller.go:763-821 *)

setClientConfigNamespace(obj, asset, namespace) ==
    IF asset # ValidatingWebhookConfiguration THEN Ok(obj)
    ELSE LET got == Nested(obj.webhooks)
             webhooks == got.val
         IN IF got.err \/ ~got.found
            THEN Ret(obj, Wrapf(got.err))
            ELSE Ok([obj EXCEPT !.webhooks =
                        Val([i \in DOMAIN webhooks |->
                                [webhooks[i] EXCEPT !.clientNamespace = Val(namespace)]])])

setControllerManagerExceptNamespace(obj, asset, namespace) ==
    IF asset # WebhookFile THEN Ok(obj)
    ELSE setContainerArg(obj, managerContainer, ExemptNamespaceArg, <<namespace>>)

setRoleBindingSubjectNamespace(obj, asset, namespace) ==
    IF asset # ClusterRoleBindingFile /\ asset # RoleBindingFile THEN Ok(obj)
    ELSE LET got == Nested(obj.subjects)
             subjects == got.val
         IN IF ~got.found \/ got.err
            THEN Ret(obj, Wrapf(got.err))
            ELSE Ok([obj EXCEPT !.subjects =
                        Val([i \in DOMAIN subjects |->
                                [subjects[i] EXCEPT !.namespace = Val(namespace)]])])

setNamespace(obj, asset, namespace) ==
    LET o1 == IF obj.namespace # "" THEN [obj EXCEPT !.namespace = namespace] ELSE obj
    IN Then(Then(setClientConfigNamespace(o1, asset, namespace),
                 LAMBDA o : setControllerManagerExceptNamespace(o, asset, namespace)),
            LAMBDA o : setRoleBindingSubjectNamespace(o, asset, namespace))

----------------------------------------------------------------------------
(* The override pipeline: gatekeeper_controller.go:313-448 *)

commonOverrides(obj, spec) ==
    Then(Then(Then(Then(setAffinity(obj, spec),
                        LAMBDA o : setNodeSelector(o, spec)),
                   LAMBDA o : setPodAnnotations(o, spec)),
              LAMBDA o : setTolerations(o, spec)),
         LAMBDA o : containerOverrides(o, spec))

auditOverrides(obj, audit) ==
    IF audit = Nil THEN Ok(obj)
    ELSE LET a == Deref(audit)
         IN Then(Then(Then(Then(Then(Then(Then(setReplicas(obj, a.Replicas),
                LAMBDA o : setLogLevel(o, a.LogLevel)),
                LAMBDA o : setAuditInterval(o, a.AuditInterval)),
                LAMBDA o : setConstraintViolationLimit(o, a.ConstraintViolationLimit)),
                LAMBDA o : setAuditFromCache(o, a.AuditFromCache)),
                LAMBDA o : setAuditChunkSize(o, a.AuditChunkSize)),
                LAMBDA o : setEmitEvents(o, EmitAuditEventsArg, a.EmitAuditEvents)),
                LAMBDA o : setResources(o, a.Resources))

webhookOverrides(obj, webhook) ==
    IF webhook = Nil THEN Ok(obj)
    ELSE LET w == Deref(webhook)
         IN Then(Then(Then(setReplicas(obj, w.Replicas),
                LAMBDA o : setLogLevel(o, w.LogLevel)),
                LAMBDA o : setEmitEvents(o, EmitAdmissionEventsArg, w.EmitAdmissionEvents)),
                LAMBDA o : setResources(o, w.Resources))

validatingWebhookConfigurationOverrides(obj, webhook) ==
    IF webhook = Nil THEN Ok(obj)
    ELSE LET w == Deref(webhook)
         IN Then(setFailurePolicy(obj, w.FailurePolicy),
                 LAMBDA o : setNamespaceSelector(o, w.NamespaceSelector))

(* mutant: the annotations are stripped before the common overrides run *)
crOverridesAuditStripFirst(spec, obj, isOpenshift) ==
    Then(Then(IF isOpenshift THEN removeAnnotations(obj) ELSE Ok(obj),
              LAMBDA o : commonOverrides(o, spec)),
         LAMBDA o : auditOverrides(o, spec.Audit))

crOverridesAudit(spec, obj, isOpenshift) ==
    Then(Then(commonOverrides(obj, spec),
              LAMBDA o : auditOverrides(o, spec.Audit)),
         LAMBDA o : IF isOpenshift THEN removeAnnotations(o) ELSE Ok(o))

crOverridesWebhook(spec, obj, isOpenshift) ==
    Then(Then(Then(commonOverrides(obj, spec),
                   LAMBDA o : webhookOverrides(o, spec.Webhook)),
              LAMBDA o : IF isOpenshift THEN removeAnnotations(o) ELSE Ok(o)),
         LAMBDA o : IF mutatingWebhookEnabled(spec.MutatingWebhook)
                    THEN setEnableMutation(o) ELSE Ok(o))

crOverrides(spec, asset, obj, namespace, isOpenshift) ==
    IF asset = NamespaceFile
    THEN Ok([obj EXCEPT !.name = namespace])
    ELSE Then(setNamespace(obj, asset, namespace),
              LAMBDA o :
                CASE asset = AuditFile -> crOverridesAudit(spec, o, isOpenshift)
                  [] asset = WebhookFile -> crOverridesWebhook(spec, o, isOpenshift)
                  [] asset = ValidatingWebhookConfiguration ->
                        validatingWebhookConfigurationOverrides(o, spec.Webhook)
                  [] asset = ClusterRoleFile ->
                        IF ~mutatingWebhookEnabled(spec.MutatingWebhook)
                        THEN removeMutatingRBACRules(o)
                        ELSE Ok(o)
                  [] OTHER -> Ok(o))

----------------------------------------------------------------------------
(* The asset catalog read by util.GetManifest.  Catalogs: "healthy" (every
   path the overrides read is there), "absent" (those paths are missing),
   "badtype" (those paths hold a value of another type).                     *)

Catalogs == {"healthy", "absent", "badtype"}

EmptyDoc ==
    [apiVersion |-> "", kind |-> "", name |-> "", namespace |-> "",
     ownerRef |-> "", resourceVersion |-> "",
     replicas |-> AbsentInt, annotations |-> AbsentSet, affinity |-> AbsentSeq,
     nodeSelector |-> AbsentSet, tolerations |-> AbsentSeq,
     containers |-> AbsentSeq, rules |-> AbsentSeq, webhooks |-> AbsentSeq,
     subjects |-> AbsentSeq]

Meta(apiVersion, kind, namespace, name) ==
    [EmptyDoc EXCEPT !.apiVersion = apiVersion, !.kind = kind,
                     !.namespace = namespace, !.name = name]

Broken(cat, good) ==
    CASE cat = "healthy" -> good
      [] cat = "absent" -> AbsentSeq
      [] cat = "badtype" -> BadSeq

Container(name, args) ==
    [name |-> Val(name), args |-> args, image |-> Val("gatekeeper:v3"),
     imagePullPolicy |-> Val("Always"), resources |-> Val(<<"map", "default">>)]

Rule(apiGroup, resource) == [apiGroups |-> Val(<<apiGroup>>), resources |-> Val(<<resource>>)]

WebhookEntry(name) ==
    [name |-> name, failurePolicy |-> Val("Ignore"), namespaceSelector |-> AbsentSeq,
     clientNamespace |-> Val("gatekeeper-system")]

Subject(name) == [name |-> name, namespace |-> Val("gatekeeper-system")]

CRD(name) == Meta("apiextensions.k8s.io/v1beta1", "CustomResourceDefinition", "", name)

Deployment(name, containers) ==
    [Meta("apps/v1", "Deployment", "gatekeeper-system", name) EXCEPT
        !.replicas = Val(1),
        !.annotations = Val({<<"container.seccomp.security.alpha.kubernetes.io/manager", "runtime/default">>}),
        !.containers = containers]

GetManifest(a, cat) ==
    CASE a = NamespaceFile -> Meta("v1", "Namespace", "", "gatekeeper-system")
      [] a = ConfigCRDFile -> CRD("configs.config.gatekeeper.sh")
      [] a = ConstraintTemplateCRDFile -> CRD("constrainttemplates.templates.gatekeeper.sh")
      [] a = ConstraintTemplatePodStatusCRDFile -> CRD("constrainttemplatepodstatuses.status.gatekeeper.sh")
      [] a = ConstraintPodStatusCRDFile -> CRD("constraintpodstatuses.status.gatekeeper.sh")
      [] a = AssignCRDFile -> CRD("assign.mutations.gatekeeper.sh")
      [] a = AssignMetadataCRDFile -> CRD("assignmetadata.mutations.gatekeeper.sh")
      [] a = ServerCertFile -> Meta("v1", "Secret", "gatekeeper-system", "gatekeeper-webhook-server-cert")
      [] a = ServiceAccountFile -> Meta("v1", "ServiceAccount", "gatekeeper-system", "gatekeeper-admin")
      [] a = PodSecurityPolicyFile -> Meta("policy/v1beta1", "PodSecurityPolicy", "", "gatekeeper-admin")
      [] a = ClusterRoleFile ->
            [Meta("rbac.authorization.k8s.io/v1", "ClusterRole", "", "gatekeeper-manager-role") EXCEPT
                !.rules = Broken(cat, Val(<< Rule("*", "*"),
                                             Rule("admissionregistration.k8s.io", "mutatingwebhookconfigurations"),
                                             Rule("admissionregistration.k8s.io", "validatingwebhookconfigurations"),
                                             Rule("mutations.gatekeeper.sh", "*") >>))]
      [] a = ClusterRoleBindingFile ->
            [Meta("rbac.authorization.k8s.io/v1", "ClusterRoleBinding", "", "gatekeeper-manager-rolebinding") EXCEPT
                !.subjects = Broken(cat, Val(<<Subject("gatekeeper-admin")>>))]
      [] a = RoleFile ->
            [Meta("rbac.authorization.k8s.io/v1", "Role", "gatekeeper-system", "gatekeeper-manager-role") EXCEPT
                !.rules = Val(<<Rule("", "events"), Rule("", "secrets")>>)]
      [] a = OpenshiftRoleFile ->
            [Meta("rbac.authorization.k8s.io/v1", "Role", "gatekeeper-system", "gatekeeper-manager-role") EXCEPT
                !.rules = Val(<<Rule("", "events"), Rule("", "secrets"),
                                Rule("security.openshift.io", "securitycontextconstraints")>>)]
      [] a = RoleBindingFile ->
            [Meta("rbac.authorization.k8s.io/v1", "RoleBinding", "gatekeeper-system", "gatekeeper-manager-rolebinding") EXCEPT
                !.subjects = Broken(cat, Val(<<Subject("gatekeeper-admin")>>))]
      [] a = AuditFile ->
            Deployment("gatekeeper-audit",
                Broken(cat, Val(<<Container(managerContainer,
                                    Val(<< <<"--operation", "=", "audit">>,
                                           <<"--operation", "=", "status">>,
                                           <<"--logtostderr">> >>))>>)))
      [] a = WebhookFile ->
            Deployment("gatekeeper-controller-manager",
                Val(<<Container(managerContainer,
                        Broken(cat, Val(<< <<"--port", "=", "8443">>,
                                           <<"--logtostderr">>,
                                           <<"--exempt-namespace", "=", "gatekeeper-system">>,
                                           <<"--operation", "=", "webhook">> >>)))>>))
      [] a = ServiceFile -> Meta("v1", "Service", "gatekeeper-system", "gatekeeper-webhook-service")
      [] a = ValidatingWebhookConfiguration ->
            [Meta("admissionregistration.k8s.io/v1beta1", "ValidatingWebhookConfiguration", "",
                  "gatekeeper-validating-webhook-configuration") EXCEPT
                !.webhooks = Broken(cat, Val(<<WebhookEntry(ValidationGatekeeperWebhook),
                                               WebhookEntry("check-ignore-label.gatekeeper.sh")>>))]
      [] a = MutatingWebhookConfiguration ->
            [Meta("admissionregistration.k8s.io/v1beta1", "MutatingWebhookConfiguration", "",
                  "gatekeeper-mutating-webhook-configuration") EXCEPT
                !.webhooks = Val(<<WebhookEntry("mutation.gatekeeper.sh")>>)]

----------------------------------------------------------------------------
(* The reconciler and the cluster *)

Workers == {"w1", "w2"}
(* controller-runtime runs one Reconcile at a time (MaxConcurrentReconciles
   is left at its default in SetupWithManager): one worker *)
SerialWorkers == {"w1"}

Platforms == {"OpenShift", "Kubernetes"}
isOpenShift == platform = "OpenShift"

(* GatekeeperReconciler.Namespace *)
Namespace == "operator-ns"

(* The identity of an object in the cluster *)
Key(d) == <<d.apiVersion, d.kind, d.namespace, d.name>>
InStore(k) == {d \in store : Key(d) = k}

(* merge.RetainClusterObjectFields: the fields the cluster owns are copied
   from the cluster's object onto the desired one *)
RetainClusterObjectFields(desiredObj, clusterObj) ==
    [desiredObj EXCEPT !.resourceVersion = clusterObj.resourceVersion]

(* ctrl.SetControllerReference(gatekeeper, manifest.Obj, r.Scheme) *)
SetControllerReference(obj) == [obj EXCEPT !.ownerRef = defaultGatekeeperCrName]

(* What the API server stores for a created object *)
Created(obj) == [obj EXCEPT !.resourceVersion = "1"]

(* On Kubernetes the target namespace is the operator's own, "which by
   definition is already created as a result of executing this code"
   (gatekeeper_controller.go:195-197).  The reconciler never reads it: the
   cluster it talks to may hold the object (the operator runs in a pod of
   that namespace) or not (the operator runs outside the cluster).          *)
OperatorNamespaceObject == Created(Meta("v1", "Namespace", "", Namespace))
InitialStores(pf) ==
    IF pf = "Kubernetes" THEN {{}, {OperatorNamespaceObject}} ELSE {{}}

(* The GatekeeperSpec values of the reconciler's runs: the two webhook
   toggles, with the Audit configuration of the specification's scenario *)
AuditScenario ==
    [Replicas |-> Ptr(3), LogLevel |-> Ptr("DEBUG"), AuditInterval |-> Nil,
     ConstraintViolationLimit |-> Nil, AuditFromCache |-> Nil, AuditChunkSize |-> Nil,
     EmitAuditEvents |-> Nil, Resources |-> Nil]

GatekeeperSpec(validating, mutating, audit) ==
    [ValidatingWebhook |-> validating, MutatingWebhook |-> mutating,
     Audit |-> audit, Webhook |-> Nil, Image |-> Nil, Affinity |-> Nil,
     NodeSelector |-> Nil, PodAnnotations |-> Nil, Tolerations |-> Nil]

RunSpecs ==
    {GatekeeperSpec(v, m, Ptr(AuditScenario)) : v \in WebhookModes, m \in WebhookModes}

IdlePass ==
    [pc |-> "idle", result |-> "none", req |-> "", spec |-> Nil, assets |-> <<>>,
     idx |-> 0, manifest |-> EmptyDoc, branch |-> "", clusterObj |-> EmptyDoc]

Event(op, asset, res) == [op |-> op, asset |-> asset, res |-> res]

(* A collaborator call may fail while failures are left in the budget *)
MayFail == budget.faults > 0
Fault == [budget EXCEPT !.faults = @ - 1]

(* mutant: a failed step is logged and the loop goes on with the next asset *)
ContinueOnError(p, result) ==
    IF result = "failure"
    THEN [pass EXCEPT ![p].pc = "loop", ![p].idx = @ + 1]
    ELSE [pass EXCEPT ![p].pc = "idle", ![p].result = result]

(* The end of a Reconcile call *)
Return(p, result) == [pass EXCEPT ![p].pc = "idle", ![p].result = result]
Log(p, evs) == [calls EXCEPT ![p] = @ \o evs]

frame == <<platform, catalog, argCase, ovCase>>

(* GatekeeperReconciler.Reconcile up to the first asset:
   gatekeeper_controller.go:141-170, 190-191 *)
Reconcile(p) ==
    /\ pass[p].pc = "idle"
    /\ budget.passes > 0
    /\ prev' = [result |-> pass[p].result, spec |-> pass[p].spec, store |-> store]
    /\ \E name \in {defaultGatekeeperCrName, "other"} :
        LET b == [budget EXCEPT !.passes = @ - 1]
            fresh == [IdlePass EXCEPT !.req = name]
        IN \/ /\ name # defaultGatekeeperCrName
              /\ pass' = [pass EXCEPT ![p] = [fresh EXCEPT !.result = "success"]]
              /\ calls' = [calls EXCEPT ![p] = <<>>]
              /\ budget' = b
           \/ /\ name = defaultGatekeeperCrName
              /\ MayFail
              /\ pass' = [pass EXCEPT ![p] = [fresh EXCEPT !.result = "failure"]]
              /\ calls' = [calls EXCEPT ![p] = <<Event("getcr", "", "err")>>]
              /\ budget' = [b EXCEPT !.faults = @ - 1]
           \/ /\ name = defaultGatekeeperCrName
              /\ gatekeeper = Nil
              /\ pass' = [pass EXCEPT ![p] = [fresh EXCEPT !.result = "success"]]
              /\ calls' = [calls EXCEPT ![p] = <<Event("getcr", "", "notfound")>>]
              /\ budget' = b
           \/ /\ name = defaultGatekeeperCrName
              /\ gatekeeper # Nil
              /\ pass' = [pass EXCEPT ![p] =
                    [fresh EXCEPT !.pc = "loop", !.spec = gatekeeper,
                                  !.assets = getStaticAssets(Deref(gatekeeper)),
                                  !.idx = 1]]
              /\ calls' = [calls EXCEPT ![p] = <<Event("getcr", "", "ok")>>]
              /\ budget' = b
    /\ UNCHANGED <<gatekeeper, store, frame>>

(* deployGatekeeperResources, the loop's end: gatekeeper_controller.go:191, 215 *)
LoopDone(p) ==
    /\ pass[p].pc = "loop"
    /\ pass[p].idx > Len(pass[p].assets)
    /\ pass' = Return(p, "success")
    /\ UNCHANGED <<gatekeeper, store, calls, prev, budget, frame>>

(* mutant: the loop walks the list from its end *)
CurrentAssetFromEnd(p) == pass[p].assets[Len(pass[p].assets) + 1 - pass[p].idx]

(* The asset the loop is at, and the special cases of the switch:
   gatekeeper_controller.go:191-201 *)
CurrentAsset(p) == pass[p].assets[pass[p].idx]

(* mutant: the namespace asset is left out on the other platform *)
SkippedOnOpenShift(a) == a = NamespaceFile /\ isOpenShift

Skipped(a) == a = NamespaceFile /\ ~isOpenShift
AssetPath(a) == IF a = RoleFile /\ isOpenShift THEN OpenshiftRoleFile ELSE a

SkipAsset(p) ==
    /\ pass[p].pc = "loop"
    /\ pass[p].idx <= Len(pass[p].assets)
    /\ Skipped(CurrentAsset(p))
    /\ pass' = [pass EXCEPT ![p].idx = @ + 1]
    /\ UNCHANGED <<gatekeeper, store, calls, prev, budget, frame>>

(* util.GetManifest and crOverrides: gatekeeper_controller.go:203-209 *)
Prepare(p) ==
    /\ pass[p].pc = "loop"
    /\ pass[p].idx <= Len(pass[p].assets)
    /\ ~Skipped(CurrentAsset(p))
    /\ LET a == CurrentAsset(p)
           path == AssetPath(a)
           r == crOverrides(Deref(pass[p].spec), path, GetManifest(path, catalog),
                            Namespace, isOpenShift)
       IN \/ /\ MayFail
             /\ budget' = Fault
             /\ calls' = Log(p, <<Event("load", a, "err")>>)
             /\ pass' = Return(p, "failure")
          \/ /\ budget' = budget
             /\ calls' = Log(p, <<Event("load", a, "ok"),
                                  Event("override", a, IF r.err THEN "err" ELSE "ok")>>)
             /\ pass' = IF r.err
                        THEN Return(p, "failure")
                        ELSE [pass EXCEPT ![p].pc = "fetch", ![p].manifest = r.obj]
    /\ UNCHANGED <<gatekeeper, store, prev, frame>>

(* r.Get(ctx, namespacedName, clusterObj) when the call itself succeeds *)
GetResult(hits) == IF hits = {} THEN "notfound" ELSE "ok"

(* mutant: the two cases of the switch are taken for each other *)
WriteBranchSwapped(getResult) == IF getResult = "ok" THEN "create" ELSE "update"

(* The switch on the error of r.Get: gatekeeper_controller.go:281-295 *)
WriteBranch(getResult) == IF getResult = "ok" THEN "update" ELSE "create"

(* mutant: a fetch that fails is made again *)
FetchRetrying(p) ==
    /\ pass[p].pc = "fetch"
    /\ LET a == CurrentAsset(p)
           obj == SetControllerReference(pass[p].manifest)
           hits == InStore(Key(obj))
       IN \/ /\ MayFail
             /\ budget' = Fault
             /\ calls' = Log(p, <<Event("owner", a, "ok"), Event("get", a, "err")>>)
             /\ pass' = pass
          \/ /\ budget' = budget
             /\ calls' = Log(p, <<Event("owner", a, "ok"), Event("get", a, GetResult(hits))>>)
             /\ \E c \in (IF hits = {} THEN {EmptyDoc} ELSE hits) :
                  pass' = [pass EXCEPT ![p].pc = "write", ![p].manifest = obj,
                                       ![p].branch = WriteBranch(GetResult(hits)),
                                       ![p].clusterObj = c]
    /\ UNCHANGED <<gatekeeper, store, prev, frame>>

(* updateOrCreateResource up to the switch: gatekeeper_controller.go:260-280 *)
Fetch(p) ==
    /\ pass[p].pc = "fetch"
    /\ LET a == CurrentAsset(p)
           obj == SetControllerReference(pass[p].manifest)
           hits == InStore(Key(obj))
       IN \/ /\ MayFail
             /\ budget' = Fault
             /\ calls' = Log(p, <<Event("owner", a, "err")>>)
             /\ pass' = Return(p, "failure")
          \/ /\ MayFail
             /\ budget' = Fault
             /\ calls' = Log(p, <<Event("owner", a, "ok"), Event("get", a, "err")>>)
             /\ pass' = [Return(p, "failure") EXCEPT ![p].manifest = obj]
          \/ /\ budget' = budget
             /\ calls' = Log(p, <<Event("owner", a, "ok"), Event("get", a, GetResult(hits))>>)
             /\ \E c \in (IF hits = {} THEN {EmptyDoc} ELSE hits) :
                  pass' = [pass EXCEPT ![p].pc = "write", ![p].manifest = obj,
                                       ![p].branch = WriteBranch(GetResult(hits)),
                                       ![p].clusterObj = c]
    /\ UNCHANGED <<gatekeeper, store, prev, frame>>

(* mutant: the manifest is sent to r.Update as loaded, without the fields
   retained from the cluster's object *)
UpdateWithoutRetain(p) ==
    /\ pass[p].pc = "write"
    /\ pass[p].branch = "update"
    /\ LET a == CurrentAsset(p)
           old == InStore(Key(pass[p].manifest))
       IN /\ old # {}
          /\ budget' = budget
          /\ calls' = Log(p, <<Event("merge", a, "ok"), Event("update", a, "ok")>>)
          /\ store' = (store \ old) \cup {pass[p].manifest}
          /\ pass' = [pass EXCEPT ![p].pc = "loop", ![p].idx = @ + 1]
    /\ UNCHANGED <<gatekeeper, prev, frame>>

(* case err == nil: gatekeeper_controller.go:282-293 *)
Update(p) ==
    /\ pass[p].pc = "write"
    /\ pass[p].branch = "update"
    /\ LET a == CurrentAsset(p)
           merged == RetainClusterObjectFields(pass[p].manifest, pass[p].clusterObj)
           old == InStore(Key(merged))
       IN \/ /\ MayFail
             /\ budget' = Fault
             /\ calls' = Log(p, <<Event("merge", a, "err")>>)
             /\ pass' = Return(p, "failure")
             /\ store' = store
          \/ /\ MayFail
             /\ budget' = Fault
             /\ calls' = Log(p, <<Event("merge", a, "ok"), Event("update", a, "err")>>)
             /\ pass' = [Return(p, "failure") EXCEPT ![p].manifest = merged]
             /\ store' = store
          \/ /\ budget' = budget
             /\ calls' = Log(p, <<Event("merge", a, "ok"),
                                  Event("update", a, IF old = {} THEN "err" ELSE "ok")>>)
             /\ store' = IF old = {} THEN store ELSE (store \ old) \cup {merged}
             /\ pass' = IF old = {}
                        THEN [Return(p, "failure") EXCEPT ![p].manifest = merged]
                        ELSE [pass EXCEPT ![p].pc = "loop", ![p].idx = @ + 1,
                                          ![p].manifest = merged]
    /\ UNCHANGED <<gatekeeper, prev, frame>>

(* mutant: a create the cluster refuses is logged and the loop goes on *)
CreateIgnoringError(p) ==
    /\ pass[p].pc = "write"
    /\ pass[p].branch = "create"
    /\ LET a == CurrentAsset(p)
           obj == pass[p].manifest
           exists == InStore(Key(obj)) # {}
       IN /\ budget' = budget
          /\ calls' = Log(p, <<Event("create", a, IF exists THEN "err" ELSE "ok")>>)
          /\ store' = IF exists THEN store ELSE store \cup {Created(obj)}
          /\ pass' = [pass EXCEPT ![p].pc = "loop", ![p].idx = @ + 1]
    /\ UNCHANGED <<gatekeeper, prev, frame>>

(* case apierrors.IsNotFound(err): gatekeeper_controller.go:295-300 *)
Create(p) ==
    /\ pass[p].pc = "write"
    /\ pass[p].branch = "create"
    /\ LET a == CurrentAsset(p)
           obj == pass[p].manifest
           exists == InStore(Key(obj)) # {}
       IN \/ /\ MayFail
             /\ budget' = Fault
             /\ calls' = Log(p, <<Event("create", a, "err")>>)
             /\ pass' = Return(p, "failure")
             /\ store' = store
          \/ /\ budget' = budget
             /\ calls' = Log(p, <<Event("create", a, IF exists THEN "err" ELSE "ok")>>)
             /\ store' = IF exists THEN store ELSE store \cup {Created(obj)}
             /\ pass' = IF exists
                        THEN Return(p, "failure")
                        ELSE [pass EXCEPT ![p].pc = "loop", ![p].idx = @ + 1]
    /\ UNCHANGED <<gatekeeper, prev, frame>>

(* One edit of the Gatekeeper resource: it is created, deleted, or one of its
   two toggles is set to another value *)
OneEdit(g, h) ==
    /\ g # h
    /\ IF g = Nil \/ h = Nil THEN TRUE
       ELSE \/ Deref(g).ValidatingWebhook = Deref(h).ValidatingWebhook
            \/ Deref(g).MutatingWebhook = Deref(h).MutatingWebhook

(* The user creates, edits or deletes the Gatekeeper resource.  A pass works
   on the copy it read, so an edit during a pass acts as one made right after
   it: edits are taken between passes.                                       *)
UserEdit ==
    /\ budget.edits > 0
    /\ \A p \in Workers : pass[p].pc = "idle"
    /\ \E g \in {Nil} \cup {Ptr(s) : s \in RunSpecs} :
        /\ OneEdit(gatekeeper, g)
        /\ gatekeeper' = g
    /\ budget' = [budget EXCEPT !.edits = @ - 1]
    /\ UNCHANGED <<store, pass, calls, prev, frame>>

NoArgCase == [args |-> <<>>, flag |-> <<>>, value |-> <<>>, result |-> Ok(EmptyDoc),
              done |-> FALSE]
NoOvCase == [asset |-> "", spec |-> Nil, isOpenshift |-> FALSE,
             doc |-> EmptyDoc, once |-> Ok(EmptyDoc), twice |-> Ok(EmptyDoc), step |-> 0]

Init ==
    /\ gatekeeper \in {Nil} \cup {Ptr(s) : s \in RunSpecs}
    /\ platform \in Platforms
    /\ catalog \in Catalogs
    /\ store \in InitialStores(platform)
    /\ pass = [p \in Workers |-> IdlePass]
    /\ calls = [p \in Workers |-> <<>>]
    /\ prev = [result |-> "none", spec |-> Nil, store |-> {}]
    /\ budget = [passes |-> MaxPasses, faults |-> MaxFaults, edits |-> 0]
    /\ argCase = NoArgCase
    /\ ovCase = NoOvCase

Next ==
    \E p \in SerialWorkers :
        \/ Reconcile(p)
        \/ LoopDone(p)
        \/ SkipAsset(p)
        \/ Prepare(p)
        \/ Fetch(p)
        \/ Update(p)
        \/ Create(p)

(* Reconcile calls, one at a time, for a Gatekeeper resource nobody edits *)
Spec == Init /\ [][Next]_vars

(* The same with a healthy catalog and a user who edits the resource *)
InitEdits ==
    /\ gatekeeper \in {Nil} \cup {Ptr(s) : s \in RunSpecs}
    /\ platform \in Platforms
    /\ catalog = "healthy"
    /\ store \in InitialStores(platform)
    /\ pass = [p \in Workers |-> IdlePass]
    /\ calls = [p \in Workers |-> <<>>]
    /\ prev = [result |-> "none", spec |-> Nil, store |-> {}]
    /\ budget = [passes |-> MaxPasses, faults |-> MaxFaults, edits |-> MaxEdits]
    /\ argCase = NoArgCase
    /\ ovCase = NoOvCase

NextEdits == Next \/ UserEdit

SpecEdits == InitEdits /\ [][NextEdits]_vars

----------------------------------------------------------------------------
(* setContainerArg on its own: every argument list up to MaxArgs entries,
   every flag name and value *)

(* No Reconcile call runs *)
NoReconciler ==
    /\ gatekeeper = Nil
    /\ platform = "Kubernetes"
    /\ catalog = "healthy"
    /\ store = {}
    /\ pass = [p \in Workers |-> IdlePass]
    /\ calls = [p \in Workers |-> <<>>]
    /\ prev = [result |-> "none", spec |-> Nil, store |-> {}]
    /\ budget = [passes |-> 0, faults |-> 0, edits |-> 0]

SeqsUpTo(S, n) == UNION {[1..k -> S] : k \in 0..n}

ArgEntries ==
    { <<"--log-level", "=", "INFO">>, <<"--log-level", "=", "DEBUG">>,
      <<"--logtostderr">>, <<"--port", "=", "8443">> }
ArgFlags == {LogLevelArg, AuditIntervalArg}
ArgValues == {<<"DEBUG">>, <<"60">>}

(* A deployment whose manager container, after a sidecar, has the arguments *)
ArgDocument(args) ==
    Deployment("gatekeeper-audit",
               Val(<<Container("sidecar", Val(<< <<"--log-level", "=", "INFO">> >>)),
                     Container(managerContainer, Val(args))>>))
ContainerArgs(obj, i) == obj.containers.v[i].args.v

InitArg ==
    /\ NoReconciler
    /\ ovCase = NoOvCase
    /\ \E args \in SeqsUpTo(ArgEntries, MaxArgs), flag \in ArgFlags, value \in ArgValues :
            argCase = [NoArgCase EXCEPT !.args = args, !.flag = flag, !.value = value]

ApplySetContainerArg ==
    /\ ~argCase.done
    /\ argCase' = [argCase EXCEPT
            !.result = setContainerArg(ArgDocument(argCase.args), managerContainer,
                                       argCase.flag, argCase.value),
            !.done = TRUE]
    /\ UNCHANGED <<gatekeeper, platform, catalog, store, pass, calls, prev, budget, ovCase>>

NextArg == ApplySetContainerArg

SpecArg == InitArg /\ [][NextArg]_vars

----------------------------------------------------------------------------
(* crOverrides on its own: applied to a document, then to its own result *)

FullAudit ==
    [Replicas |-> Ptr(3), LogLevel |-> Ptr("DEBUG"), AuditInterval |-> Ptr(10500),
     ConstraintViolationLimit |-> Ptr(55), AuditFromCache |-> Ptr("Enabled"),
     AuditChunkSize |-> Ptr(10), EmitAuditEvents |-> Ptr("Enabled"),
     Resources |-> Ptr("limits")]

FullWebhook ==
    [Replicas |-> Ptr(2), LogLevel |-> Ptr("ERROR"), EmitAdmissionEvents |-> Ptr("Enabled"),
     Resources |-> Ptr("limits"), FailurePolicy |-> Ptr("Fail"),
     NamespaceSelector |-> Ptr("selector")]

FullSpec(validating, mutating) ==
    [GatekeeperSpec(validating, mutating, Ptr(FullAudit)) EXCEPT
        !.Webhook = Ptr(FullWebhook),
        !.Image = Ptr([Image |-> Ptr("gatekeeper:v4"), ImagePullPolicy |-> Ptr("IfNotPresent")]),
        !.Affinity = Ptr("affinity"),
        !.NodeSelector = Ptr({<<"region", "emea">>}),
        !.PodAnnotations = Ptr({<<"some", "annotation">>}),
        !.Tolerations = Ptr(<<"toleration">>)]

(* Every field set but one *)
SpecsWithOneUnset ==
    {[FullSpec(Nil, Nil) EXCEPT !.Audit = Ptr([FullAudit EXCEPT ![f] = Nil])] :
        f \in DOMAIN FullAudit}
    \cup {[FullSpec(Nil, Nil) EXCEPT !.Webhook = Ptr([FullWebhook EXCEPT ![f] = Nil])] :
            f \in DOMAIN FullWebhook}
    \cup {[FullSpec(Nil, Nil) EXCEPT ![f] = Nil] :
            f \in {"Audit", "Webhook", "Image", "Affinity", "NodeSelector",
                    "PodAnnotations", "Tolerations"}}
    \cup {[FullSpec(Nil, Nil) EXCEPT !.Image = Ptr([Image |-> i, ImagePullPolicy |-> pp])] :
            i \in {Nil, Ptr("gatekeeper:v4")}, pp \in {Nil, Ptr("IfNotPresent")}}

OverrideSpecs ==
    {GatekeeperSpec(Nil, m, a) : m \in WebhookModes, a \in {Nil, Ptr(AuditScenario)}}
    \cup {FullSpec(Nil, m) : m \in WebhookModes}
    \cup SpecsWithOneUnset

OverrideAssets == Range(orderedStaticAssets) \cup {OpenshiftRoleFile}

RuleChoices ==
    { Rule("*", "*"), Rule("admissionregistration.k8s.io", "mutatingwebhookconfigurations"),
      Rule("mutations.gatekeeper.sh", "*") }

(* The documents crOverrides is given for an asset: its template in every
   catalog, for the cluster role every rules list up to MaxRules rules, for
   the two deployments the template without and with empty annotations *)
OverrideDocs(a) ==
    {GetManifest(a, cat) : cat \in Catalogs}
    \cup (IF a = ClusterRoleFile
          THEN {[GetManifest(a, "healthy") EXCEPT !.rules = Val(rs)] :
                    rs \in SeqsUpTo(RuleChoices, MaxRules)}
          ELSE {})
    \cup (IF a \in {AuditFile, WebhookFile}
          THEN {[GetManifest(a, "healthy") EXCEPT !.annotations = x] :
                    x \in {AbsentSet, Val({})}}
          ELSE {})

InitOverride ==
    /\ NoReconciler
    /\ argCase = NoArgCase
    /\ \E a \in OverrideAssets, spec \in OverrideSpecs, os \in BOOLEAN :
        \E doc \in OverrideDocs(a) :
            ovCase = [NoOvCase EXCEPT !.asset = a, !.spec = Ptr(spec),
                                      !.isOpenshift = os, !.doc = doc]

ApplyOverrides ==
    /\ ovCase.step = 0
    /\ ovCase' = [ovCase EXCEPT
            !.once = crOverrides(Deref(ovCase.spec), ovCase.asset, ovCase.doc,
                                 Namespace, ovCase.isOpenshift),
            !.step = 1]
    /\ UNCHANGED <<gatekeeper, platform, catalog, store, pass, calls, prev, budget, argCase>>

ApplyOverridesAgain ==
    /\ ovCase.step = 1
    /\ ~ovCase.once.err
    /\ ovCase' = [ovCase EXCEPT
            !.twice = crOverrides(Deref(ovCase.spec), ovCase.asset, ovCase.once.obj,
                                  Namespace, ovCase.isOpenshift),
            !.step = 2]
    /\ UNCHANGED <<gatekeeper, platform, catalog, store, pass, calls, prev, budget, argCase>>

NextOverride == ApplyOverrides \/ ApplyOverridesAgain

SpecOverride == InitOverride /\ [][NextOverride]_vars

----------------------------------------------------------------------------
(* Vocabulary of the properties *)

Started(p) == pass[p].spec # Nil
Finished(p) == Started(p) /\ pass[p].pc = "idle"
SpecOf(p) == Deref(pass[p].spec)

(* orderedStaticAssets holds no identifier twice, so IndexIn is the place of x *)
IndexIn(seq, x) == CHOOSE i \in DOMAIN seq : seq[i] = x

(* The identifiers the toggles remove, read off the toggles alone *)
RemovedByToggles(spec) ==
    (IF spec.MutatingWebhook = Ptr(WebhookEnabled) THEN {}
     ELSE {AssignCRDFile, AssignMetadataCRDFile, MutatingWebhookConfiguration})
    \cup
    (IF spec.ValidatingWebhook = Ptr(WebhookDisabled)
     THEN {ValidatingWebhookConfiguration} ELSE {})

(* The events of worker p's pass, by position *)
Events(p) == DOMAIN calls[p]
IsWrite(e) == e.op \in {"create", "update"}
IsRemote(e) == e.op \in {"get", "create", "update"}
Count(p, op, a) == Cardinality({k \in Events(p) : calls[p][k].op = op /\ calls[p][k].asset = a})
WrittenBefore(p, b, k) ==
    \E j \in Events(p) : j < k /\ IsWrite(calls[p][j]) /\ calls[p][j].asset = b /\ calls[p][j].res = "ok"

(* The assets a pass on this platform processes, in order *)
Excluded(spec, a) ==
    \/ a \in RemovedByToggles(spec)
    \/ a = NamespaceFile /\ platform = "Kubernetes"
Processed(p) == SelectSeq(pass[p].assets, LAMBDA a : ~(a = NamespaceFile /\ platform = "Kubernetes"))

(* The document a pass with specification spec submits for asset a, and what
   the cluster holds once it is written *)
Transformed(spec, a) ==
    crOverrides(spec, AssetPath(a), GetManifest(AssetPath(a), catalog), Namespace, isOpenShift)
Desired(spec, a) == Created(SetControllerReference(Transformed(spec, a).obj))

----------------------------------------------------------------------------
(* C1: for every combination of the two toggles the list a pass selects is
   non-empty, holds only identifiers of orderedStaticAssets, holds none
   twice, and keeps them in the order of orderedStaticAssets.               *)
C1_SelectedIsSubsequence ==
    \A p \in Workers :
        Started(p) =>
            LET s == pass[p].assets
            IN /\ s # <<>>
               /\ \A i \in DOMAIN s : s[i] \in Range(orderedStaticAssets)
               \* the places in orderedStaticAssets increase strictly along s
               /\ \A i \in DOMAIN s :
                    i < Len(s) =>
                        IndexIn(orderedStaticAssets, s[i]) < IndexIn(orderedStaticAssets, s[i + 1])

(* a pass that selected with validating disabled and mutating enabled, so
   that an identifier in the middle of the tail was removed *)
C1_Witness ==
    \E p \in Workers :
        /\ Started(p)
        /\ SpecOf(p).ValidatingWebhook = Ptr(WebhookDisabled)
        /\ SpecOf(p).MutatingWebhook = Ptr(WebhookEnabled)
        /\ Len(pass[p].assets) = Len(orderedStaticAssets) - 1

(* C2: the identifiers missing from the selected list are exactly those the
   toggles name: the three mutating assets unless mutating is Enabled, the
   validating webhook configuration when validating is Disabled.            *)
C2_RemovedExactlyByToggles ==
    \A p \in Workers :
        Started(p) =>
            Range(orderedStaticAssets) \ Range(pass[p].assets) = RemovedByToggles(SpecOf(p))

(* a pass with both toggles unset: the three mutating assets are gone, the
   validating webhook configuration is kept *)
C2_Witness ==
    \E p \in Workers :
        /\ Started(p)
        /\ SpecOf(p).ValidatingWebhook = Nil
        /\ SpecOf(p).MutatingWebhook = Nil
        /\ Range(orderedStaticAssets) \ Range(pass[p].assets) =
                {AssignCRDFile, AssignMetadataCRDFile, MutatingWebhookConfiguration}

----------------------------------------------------------------------------
(* The call of updateOrCreateResource that logged the fetch at place k has
   taken its write step *)
Settled(p, k) == ~(pass[p].pc = "write" /\ k = Len(calls[p]))
Fetched(p, k) == calls[p][k].op = "get" /\ calls[p][k].res \in {"ok", "notfound"}
At(p, k, op, a) == k \in Events(p) /\ calls[p][k].op = op /\ calls[p][k].asset = a

(* What C3 and its amendment share: after NotFound one create of the
   transformed document and nothing else; after a found object no create *)
C3_Common(p, k) ==
    LET a == calls[p][k].asset
    IN /\ calls[p][k].res = "notfound" =>
            /\ Count(p, "update", a) = 0
            /\ Count(p, "merge", a) = 0
            /\ Settled(p, k) =>
                /\ At(p, k + 1, "create", a)
                /\ Count(p, "create", a) = 1
                /\ calls[p][k + 1].res = "ok" => Desired(SpecOf(p), a) \in store
       /\ calls[p][k].res = "ok" =>
            /\ Count(p, "create", a) = 0
            /\ Settled(p, k) => At(p, k + 1, "merge", a)

(* C3 as stated: after a fetch that found the object, exactly one update call
   is issued.                                                               *)
C3_AsStated ==
    \A p \in Workers : \A k \in Events(p) :
        Fetched(p, k) =>
            /\ C3_Common(p, k)
            /\ (calls[p][k].res = "ok" /\ Settled(p, k)) =>
                    /\ At(p, k + 2, "update", calls[p][k].asset)
                    /\ Count(p, "update", calls[p][k].asset) = 1

(* C3, amended: a fetch returning NotFound is followed by exactly one create
   call, of the transformed document, and no update; a fetch returning an
   object is followed by the retention merge and no create, and then by
   exactly one update call, of the merged document, when the merge succeeds
   and by no write at all when the merge fails.                             *)
C3_CreateOrUpdate ==
    \A p \in Workers : \A k \in Events(p) :
        Fetched(p, k) =>
            /\ C3_Common(p, k)
            /\ (calls[p][k].res = "ok" /\ Settled(p, k)) =>
                 LET a == calls[p][k].asset
                 IN IF calls[p][k + 1].res = "ok"
                    THEN /\ At(p, k + 2, "update", a)
                         /\ Count(p, "update", a) = 1
                         /\ calls[p][k + 2].res = "ok" => Desired(SpecOf(p), a) \in store
                    ELSE /\ Count(p, "update", a) = 0
                         /\ k + 1 = Len(calls[p])

(* a finished pass that created one asset and updated another *)
C3_Witness ==
    \E p \in Workers :
        /\ Finished(p)
        /\ \E k \in Events(p) : calls[p][k].op = "create" /\ calls[p][k].res = "ok"
        /\ \E k \in Events(p) : calls[p][k].op = "update" /\ calls[p][k].res = "ok"

----------------------------------------------------------------------------
(* C4: in a pass the fetch and the write of an asset come only after the
   write of every asset processed before it has succeeded, and at most one
   asset is fetched and not yet written.  Events are only ever appended to
   calls, so stating this of the last event states it of every event.       *)
C4_Sequential ==
    \A p \in Workers :
        LET k == Len(calls[p])
            proc == Processed(p)
        IN /\ (k > 0 /\ IsRemote(calls[p][k])) =>
                LET a == calls[p][k].asset
                IN /\ a \in Range(proc)
                   /\ \A j \in DOMAIN proc :
                        j < IndexIn(proc, a) => WrittenBefore(p, proc[j], k)
           /\ Cardinality({a \in Range(proc) :
                            /\ Count(p, "get", a) > 0
                            /\ Count(p, "create", a) + Count(p, "update", a) = 0}) <= 1

(* on OpenShift the webhook deployment is being fetched: the namespace, the
   CRDs and the server-cert secret were written before *)
C4_Witness ==
    \E p \in Workers :
        /\ platform = "OpenShift"
        /\ pass[p].pc = "write"
        /\ CurrentAsset(p) = WebhookFile
        /\ \A b \in {NamespaceFile, ConfigCRDFile, ServerCertFile, AuditFile} :
                WrittenBefore(p, b, Len(calls[p]))

----------------------------------------------------------------------------
(* A pass that has returned a failure *)
Failed(p) == pass[p].pc = "idle" /\ pass[p].result = "failure"
LastEvent(p) == calls[p][Len(calls[p])]

(* C5: a step that fails ends the pass with a failure: the failed step is the
   last thing the pass did (no read or write follows it, for that asset or a
   later one), and every object the pass wrote before is in the store as it
   was written.                                                             *)
C5_FailureAborts ==
    \A p \in Workers :
        /\ \A k \in Events(p) :
                calls[p][k].res = "err" => (k = Len(calls[p]) /\ Failed(p))
        /\ Failed(p) =>
                /\ calls[p] # <<>>
                /\ LastEvent(p).res = "err"
                /\ \A j \in Events(p) :
                        (IsWrite(calls[p][j]) /\ calls[p][j].res = "ok") =>
                            Desired(SpecOf(p), calls[p][j].asset) \in store

(* a pass that wrote the audit deployment and then failed at a write of the
   webhook deployment *)
C5_Witness ==
    \E p \in Workers :
        /\ Failed(p)
        /\ Started(p)
        /\ IsWrite(LastEvent(p))
        /\ LastEvent(p).asset = WebhookFile
        /\ LastEvent(p).res = "err"
        /\ WrittenBefore(p, AuditFile, Len(calls[p]))
        /\ Desired(SpecOf(p), AuditFile) \in store

----------------------------------------------------------------------------
(* C6: no step of a pass (load, override, owner link, fetch, merge, create,
   update) is taken for an asset the pass excludes: one a toggle removes, or
   the namespace asset on Kubernetes, where the namespace object is neither
   created nor touched, whether the store holds it or not.                  *)
C6_ExcludedUntouched ==
    /\ \A p \in Workers : \A k \in Events(p) :
            calls[p][k].asset # "" => ~Excluded(SpecOf(p), calls[p][k].asset)
    /\ platform = "Kubernetes" =>
            \A d \in store : d.kind = "Namespace" => d = OperatorNamespaceObject

(* a successful pass on Kubernetes, the namespace object not in the store,
   validating disabled and mutating not enabled *)
C6_Witness ==
    \E p \in Workers :
        /\ Finished(p)
        /\ pass[p].result = "success"
        /\ platform = "Kubernetes"
        /\ SpecOf(p).ValidatingWebhook = Ptr(WebhookDisabled)
        /\ SpecOf(p).MutatingWebhook # Ptr(WebhookEnabled)
        /\ \A d \in store : d.kind # "Namespace"
        /\ Count(p, "create", ServiceFile) = 1

----------------------------------------------------------------------------
(* The template of asset a lacks a field path an override of spec reads:
   the containers of the audit deployment and the args of the webhook
   deployment's manager container (image and exempt-namespace overrides
   always apply), the subjects of the two bindings and the webhooks of the
   validating webhook configuration (namespace injection always applies),
   the rules of the cluster role when mutating is not enabled                *)
RequiredPathMissing(spec, a) ==
    /\ catalog = "absent"
    /\ \/ a \in {AuditFile, WebhookFile, ClusterRoleBindingFile, RoleBindingFile,
                 ValidatingWebhookConfiguration}
       \/ a = ClusterRoleFile /\ spec.MutatingWebhook # Ptr(WebhookEnabled)

(* C9: when the template of an asset lacks a field path an applicable
   override requires, the override pipeline returns an error and neither a
   create nor an update is issued for the asset.                            *)
C9_MissingPathAborts ==
    \A p \in Workers : \A k \in Events(p) :
        (calls[p][k].op = "override" /\ RequiredPathMissing(SpecOf(p), calls[p][k].asset)) =>
            /\ calls[p][k].res = "err"
            /\ Count(p, "create", calls[p][k].asset) = 0
            /\ Count(p, "update", calls[p][k].asset) = 0

----------------------------------------------------------------------------
(* A pass that succeeded right after a successful pass with the same
   specification *)
SecondPass(p) ==
    /\ Finished(p)
    /\ pass[p].result = "success"
    /\ prev.result = "success"
    /\ prev.spec = pass[p].spec

(* C10 as stated: the second pass issues no create, no write for an asset
   whose stored object already matches the transformed template, and leaves
   the store as the first pass left it.                                     *)
C10_AsStated ==
    \A p \in Workers :
        SecondPass(p) =>
            /\ \A k \in Events(p) : calls[p][k].op # "create"
            /\ \A a \in Range(Processed(p)) :
                    Desired(SpecOf(p), a) \in prev.store => Count(p, "update", a) = 0
            /\ store = prev.store

(* C10, amended: the second pass issues no create call; it fetches every
   processed asset once and issues exactly one update for it, of a document
   equal to the stored object; every stored object is left equal to its
   state after the first pass.                                              *)
C10_SecondPassRewritesEqual ==
    \A p \in Workers :
        SecondPass(p) =>
            /\ \A k \in Events(p) : calls[p][k].op # "create"
            /\ \A a \in Range(Processed(p)) :
                    /\ Desired(SpecOf(p), a) \in prev.store
                    /\ Count(p, "get", a) = 1
                    /\ Count(p, "update", a) = 1
            /\ store = prev.store

(* a second pass that updated the audit deployment it found as desired *)
C10_Witness ==
    \E p \in Workers :
        /\ SecondPass(p)
        /\ catalog = "healthy"
        /\ Desired(SpecOf(p), AuditFile) \in prev.store
        /\ \E k \in Events(p) :
                calls[p][k] = Event("update", AuditFile, "ok")

----------------------------------------------------------------------------
(* The entries of an argument list that carry a flag name *)
Named(args, flag) == {i \in DOMAIN args : FromArg(args[i]).key = flag}
ArgsAfter == ContainerArgs(argCase.result.obj, 2)

(* Whatever the list, setContainerArg succeeds and leaves the other
   container alone *)
C7_Common ==
    /\ ~argCase.result.err
    /\ ContainerArgs(argCase.result.obj, 1) = ContainerArgs(ArgDocument(argCase.args), 1)

(* C7 as stated: when an entry with the flag name existed, one entry has its
   value replaced in place and every other entry is unchanged; otherwise
   the entry is appended at the end.                                        *)
C7_AsStated ==
    argCase.done =>
        /\ C7_Common
        /\ IF Named(argCase.args, argCase.flag) # {}
           THEN \E i \in Named(argCase.args, argCase.flag) :
                    ArgsAfter = [argCase.args EXCEPT ![i] = ToArg(argCase.flag, argCase.value)]
           ELSE ArgsAfter = Append(argCase.args, ToArg(argCase.flag, argCase.value))

(* C7, amended: when entries with the flag name existed, every one of them
   is replaced in place by flag=value, the length of the list and every
   entry with another name are unchanged; otherwise the list is the input
   with flag=value appended at the end.                                     *)
C7_ReplaceAllOrAppend ==
    argCase.done =>
        /\ C7_Common
        /\ IF Named(argCase.args, argCase.flag) # {}
           THEN /\ Len(ArgsAfter) = Len(argCase.args)
                /\ \A i \in DOMAIN argCase.args :
                        ArgsAfter[i] = IF i \in Named(argCase.args, argCase.flag)
                                       THEN argCase.flag \o <<"=">> \o argCase.value
                                       ELSE argCase.args[i]
           ELSE /\ Len(ArgsAfter) = Len(argCase.args) + 1
                /\ SubSeq(ArgsAfter, 1, Len(argCase.args)) = argCase.args
                /\ ArgsAfter[Len(ArgsAfter)] = argCase.flag \o <<"=">> \o argCase.value

(* --log-level=DEBUG set on a list with --log-level=INFO at two places and
   another flag between them *)
C7_Witness ==
    /\ argCase.done
    /\ argCase.args = << <<"--log-level", "=", "INFO">>, <<"--logtostderr">>,
                         <<"--log-level", "=", "INFO">> >>
    /\ argCase.flag = LogLevelArg
    /\ argCase.value = <<"DEBUG">>
    /\ ArgsAfter = << <<"--log-level", "=", "DEBUG">>, <<"--logtostderr">>,
                      <<"--log-level", "=", "DEBUG">> >>

----------------------------------------------------------------------------
(* The rules of a document that a matcher of the cluster-role override names *)
MutationRules(doc) ==
    {i \in DOMAIN doc.rules.v : doc.rules.v[i].apiGroups.v[1] = "mutations.gatekeeper.sh"}
MutatingWebhookConfigurationRules(doc) ==
    {i \in DOMAIN doc.rules.v :
        /\ doc.rules.v[i].apiGroups.v[1] = "admissionregistration.k8s.io"
        /\ doc.rules.v[i].resources.v[1] = "mutatingwebhookconfigurations"}
AtMostOneRulePerMatcher(doc) ==
    /\ Cardinality(MutationRules(doc)) <= 1
    /\ Cardinality(MutatingWebhookConfigurationRules(doc)) <= 1

(* C8 as stated: for every asset, specification, platform and input document,
   crOverrides applied to a document crOverrides produced succeeds and
   yields that document.                                                    *)
C8_AsStated ==
    ovCase.step = 2 =>
        /\ ~ovCase.twice.err
        /\ ovCase.twice.obj = ovCase.once.obj

(* C8, amended: the same for every input document in which at most one rule
   matches each of the two matchers of the cluster-role override.           *)
C8_IdempotentOnSingleMatches ==
    (ovCase.step = 2 /\ AtMostOneRulePerMatcher(ovCase.doc)) =>
        /\ ~ovCase.twice.err
        /\ ovCase.twice.obj = ovCase.once.obj

(* the webhook deployment under a specification that sets every field, with
   mutating enabled: the first application changed the template, the second
   changed nothing *)
C8_Witness ==
    /\ ovCase.step = 2
    /\ ovCase.asset = WebhookFile
    /\ ovCase.spec = Ptr(FullSpec(Nil, Ptr(WebhookEnabled)))
    /\ ovCase.doc = GetManifest(WebhookFile, "healthy")
    /\ ovCase.once.obj # ovCase.doc
    /\ Len(ContainerArgs(ovCase.once.obj, 1)) = Len(ContainerArgs(ovCase.doc, 1)) + 3
    /\ ovCase.twice.obj = ovCase.once.obj

----------------------------------------------------------------------------
(* The rules of a list at the places outside a set, in their order *)
RECURSIVE KeepFrom(_, _, _)
KeepFrom(rules, removed, i) ==
    IF i > Len(rules) THEN <<>>
    ELSE (IF i \in removed THEN <<>> ELSE <<rules[i]>>) \o KeepFrom(rules, removed, i + 1)

(* The first rule, if any, that each of the two matchers names *)
FirstMatches(doc) ==
    (IF MutationRules(doc) = {} THEN {} ELSE {Min(MutationRules(doc))})
    \cup (IF MutatingWebhookConfigurationRules(doc) = {} THEN {}
          ELSE {Min(MutatingWebhookConfigurationRules(doc))})

ClusterRoleOverridden ==
    /\ ovCase.step >= 1
    /\ ovCase.asset = ClusterRoleFile
    /\ ovCase.doc.rules.st = "ok"

(* C11: with mutating not enabled, the cluster-role override removes for each
   matcher the first rule that matches and no other: the rules left are the
   input's rules outside those (at most two) places, in their order, so a
   later match survives and a list without a match is unchanged; with
   mutating enabled the list is unchanged.                                  *)
C11_FirstMatchRemoved ==
    ClusterRoleOverridden =>
        /\ ~ovCase.once.err
        /\ ovCase.once.obj.rules.st = "ok"
        /\ ovCase.once.obj.rules.v =
                IF Deref(ovCase.spec).MutatingWebhook = Ptr(WebhookEnabled)
                THEN ovCase.doc.rules.v
                ELSE KeepFrom(ovCase.doc.rules.v, FirstMatches(ovCase.doc), 1)
        /\ Len(ovCase.doc.rules.v) - Len(ovCase.once.obj.rules.v) <= 2

(* mutating disabled, a cluster role with two rules of the mutation API group
   around one of mutatingwebhookconfigurations: the second mutation rule
   survives *)
C11_Witness ==
    /\ ClusterRoleOverridden
    /\ Deref(ovCase.spec).MutatingWebhook = Ptr(WebhookDisabled)
    /\ ovCase.doc.rules.v =
            << Rule("mutations.gatekeeper.sh", "*"),
               Rule("admissionregistration.k8s.io", "mutatingwebhookconfigurations"),
               Rule("mutations.gatekeeper.sh", "*") >>
    /\ ovCase.once.obj.rules.v = << Rule("mutations.gatekeeper.sh", "*") >>

----------------------------------------------------------------------------
(* crOverrides has run on an asset the specification selects *)
OverriddenSelected ==
    /\ ovCase.step >= 1
    /\ ~ovCase.once.err
    /\ \/ ovCase.asset \in Range(getStaticAssets(Deref(ovCase.spec)))
       \/ ovCase.asset = OpenshiftRoleFile

NamespaceOfEvery(entries) == {entries.v[i].namespace : i \in DOMAIN entries.v}
ClientNamespaceOfEvery(entries) == {entries.v[i].clientNamespace : i \in DOMAIN entries.v}

(* C12: after crOverrides with target namespace N on a selected asset other
   than the namespace asset, the document's namespace is N when the asset is
   namespaced, every webhook entry of a webhook configuration has client
   service namespace N, and every subject of the two bindings has namespace
   N; of the namespace asset only the name changes, to N.                   *)
C12_NamespaceInjected ==
    OverriddenSelected =>
        IF ovCase.asset = NamespaceFile
        THEN ovCase.once.obj = [ovCase.doc EXCEPT !.name = Namespace]
        ELSE /\ ovCase.once.obj.name = ovCase.doc.name
             /\ ovCase.once.obj.namespace =
                    IF ovCase.doc.namespace # "" THEN Namespace ELSE ""
             /\ ovCase.asset \in {ValidatingWebhookConfiguration, MutatingWebhookConfiguration} =>
                    ClientNamespaceOfEvery(ovCase.once.obj.webhooks) \subseteq {Val(Namespace)}
             /\ ovCase.asset \in {ClusterRoleBindingFile, RoleBindingFile} =>
                    NamespaceOfEvery(ovCase.once.obj.subjects) \subseteq {Val(Namespace)}

----------------------------------------------------------------------------
(* The argument each optional field of the audit and of the webhook
   configuration is written to *)
AuditFlag ==
    [LogLevel |-> LogLevelArg, AuditInterval |-> AuditIntervalArg,
     ConstraintViolationLimit |-> ConstraintViolationLimitArg,
     AuditFromCache |-> AuditFromCacheArg, AuditChunkSize |-> AuditChunkSizeArg,
     EmitAuditEvents |-> EmitAuditEventsArg]
WebhookFlag == [LogLevel |-> LogLevelArg, EmitAdmissionEvents |-> EmitAdmissionEventsArg]

(* The configuration of a deployment asset in a specification, and the flags
   of the fields it sets (with --enable-mutation, which the mutating toggle
   sets on the webhook deployment) *)
ConfigOf(spec, a) == IF a = AuditFile THEN spec.Audit ELSE spec.Webhook
FieldSet(cfg, f) == cfg # Nil /\ Deref(cfg)[f] # Nil
SetFlags(spec, a) ==
    IF a = AuditFile
    THEN {AuditFlag[f] : f \in {g \in DOMAIN AuditFlag : FieldSet(spec.Audit, g)}}
    ELSE {WebhookFlag[f] : f \in {g \in DOMAIN WebhookFlag : FieldSet(spec.Webhook, g)}}
         \cup (IF spec.MutatingWebhook = Ptr(WebhookEnabled) THEN {EnableMutationArg} ELSE {})
WithoutFlags(args, flags) == SelectSeq(args, LAMBDA x : FromArg(x).key \notin flags)

(* The template after namespace injection, before any rule of a field *)
Injected == setNamespace(ovCase.doc, ovCase.asset, Namespace).obj
OvSpec == Deref(ovCase.spec)
After == ovCase.once.obj

(* What crOverrides leaves of a deployment when fields are unset *)
DeploymentFrame ==
    LET cfg == ConfigOf(OvSpec, ovCase.asset)
    IN /\ ~FieldSet(cfg, "Replicas") => After.replicas = Injected.replicas
       /\ OvSpec.Affinity = Nil => After.affinity = Injected.affinity
       /\ OvSpec.NodeSelector = Nil => After.nodeSelector = Injected.nodeSelector
       /\ OvSpec.Tolerations = Nil => After.tolerations = Injected.tolerations
       /\ (OvSpec.PodAnnotations = Nil /\ ~ovCase.isOpenshift) =>
                After.annotations = Injected.annotations
       /\ After.containers.st = Injected.containers.st
       /\ Len(After.containers.v) = Len(Injected.containers.v)
       /\ \A i \in DOMAIN Injected.containers.v :
            LET c == After.containers.v[i]
                t == Injected.containers.v[i]
            IN /\ c.name = t.name
               /\ (OvSpec.Image = Nil \/ Deref(OvSpec.Image).Image = Nil) => c.image = t.image
               /\ (OvSpec.Image = Nil \/ Deref(OvSpec.Image).ImagePullPolicy = Nil) =>
                        c.imagePullPolicy = t.imagePullPolicy
               /\ ~FieldSet(cfg, "Resources") => c.resources = t.resources
               /\ c.args.st = t.args.st
               /\ WithoutFlags(c.args.v, SetFlags(OvSpec, ovCase.asset)) =
                        WithoutFlags(t.args.v, SetFlags(OvSpec, ovCase.asset))
       /\ [After EXCEPT !.replicas = AbsentInt, !.affinity = AbsentSeq,
                        !.nodeSelector = AbsentSet, !.tolerations = AbsentSeq,
                        !.annotations = AbsentSet, !.containers = AbsentSeq]
            = [Injected EXCEPT !.replicas = AbsentInt, !.affinity = AbsentSeq,
                               !.nodeSelector = AbsentSet, !.tolerations = AbsentSeq,
                               !.annotations = AbsentSet, !.containers = AbsentSeq]

(* What it leaves of the validating webhook configuration *)
WebhookConfigurationFrame ==
    /\ [After EXCEPT !.webhooks = AbsentSeq] = [Injected EXCEPT !.webhooks = AbsentSeq]
    /\ After.webhooks.st = Injected.webhooks.st
    /\ Len(After.webhooks.v) = Len(Injected.webhooks.v)
    /\ \A i \in DOMAIN Injected.webhooks.v :
        LET w == After.webhooks.v[i]
            t == Injected.webhooks.v[i]
        IN /\ w.name = t.name
           /\ w.clientNamespace = t.clientNamespace
           /\ ~FieldSet(OvSpec.Webhook, "FailurePolicy") => w.failurePolicy = t.failurePolicy
           /\ ~FieldSet(OvSpec.Webhook, "NamespaceSelector") =>
                    w.namespaceSelector = t.namespaceSelector

(* The scenario: only Audit.Replicas=3 and Audit.LogLevel=DEBUG are set, on
   the default platform *)
Scenario ==
    /\ ovCase.spec = Ptr(GatekeeperSpec(Nil, Nil, Ptr(AuditScenario)))
    /\ ~ovCase.isOpenshift
    /\ ovCase.doc = GetManifest(ovCase.asset, "healthy")
EmptySpec == GatekeeperSpec(Nil, Nil, Nil)

(* C13: an override of an unset optional field leaves what it writes as the
   namespace-injected template has it; in the scenario the audit deployment
   differs from the namespace-injected template in the replica count and the
   --log-level argument only, and the webhook deployment is what an empty
   specification gives.                                                     *)
C13_UnsetFieldsUntouched ==
    (ovCase.step >= 1 /\ ~ovCase.once.err) =>
        /\ ovCase.asset \in {AuditFile, WebhookFile} => DeploymentFrame
        /\ ovCase.asset = ValidatingWebhookConfiguration => WebhookConfigurationFrame
        /\ (Scenario /\ ovCase.asset = AuditFile) =>
                /\ After.replicas = Val(3)
                /\ ContainerArgs(After, 1) =
                        Append(ContainerArgs(Injected, 1), <<"--log-level", "=", "DEBUG">>)
                /\ [After EXCEPT !.replicas = AbsentInt, !.containers.v[1].args = AbsentSeq]
                    = [Injected EXCEPT !.replicas = AbsentInt, !.containers.v[1].args = AbsentSeq]
        /\ (Scenario /\ ovCase.asset = WebhookFile) =>
                After = crOverrides(EmptySpec, WebhookFile, ovCase.doc, Namespace, FALSE).obj

(* the scenario on the audit deployment: three replicas where the template
   has one *)
C13_Witness ==
    /\ ovCase.step >= 1
    /\ Scenario
    /\ ovCase.asset = AuditFile
    /\ Injected.replicas = Val(1)
    /\ After.replicas = Val(3)
    /\ Len(ContainerArgs(After, 1)) = Len(ContainerArgs(Injected, 1)) + 1

----------------------------------------------------------------------------
(* C14: after crOverrides on the audit or the webhook deployment, on
   OpenShift the pod-template annotations are empty whatever the template
   and spec.podAnnotations hold; on the default platform they are
   spec.podAnnotations when it is set and the template's when it is not.    *)
C14_AnnotationsByPlatform ==
    (ovCase.step >= 1 /\ ~ovCase.once.err /\ ovCase.asset \in {AuditFile, WebhookFile}) =>
        After.annotations =
            IF ovCase.isOpenshift THEN Val({})
            ELSE IF OvSpec.PodAnnotations # Nil THEN Val(Deref(OvSpec.PodAnnotations))
            ELSE ovCase.doc.annotations

(* OpenShift, spec.podAnnotations set, a template with an annotation: the
   audit deployment ends with none *)
C14_Witness ==
    /\ ovCase.step >= 1
    /\ ovCase.isOpenshift
    /\ ovCase.asset = AuditFile
    /\ OvSpec.PodAnnotations = Ptr({<<"some", "annotation">>})
    /\ ovCase.doc.annotations.st = "ok"
    /\ ovCase.doc.annotations.v # {}
    /\ ~ovCase.once.err
    /\ After.annotations = Val({})

----------------------------------------------------------------------------
Keys(objects) == {Key(d) : d \in objects}

(* The objects of the assets the toggles of a specification remove *)
ObjectsOf(objects, a) ==
    {d \in objects : Key(d) = Key(Transformed(EmptySpec, a).obj)}

(* After a successful pass, every object of an asset its toggles remove that
   was in the store before the pass is there as it was, and the pass took no
   step for the asset *)
RemovedAssetsKept ==
    \A p \in Workers :
        (Finished(p) /\ pass[p].result = "success") =>
            \A a \in RemovedByToggles(SpecOf(p)) :
                /\ ObjectsOf(prev.store, a) \subseteq store
                /\ \A k \in Events(p) : calls[p][k].asset # a

(* C15: no step of any pass removes an object key from the store, whatever
   the toggles are and however they are edited between passes; an object
   created while a toggle was enabled is still in the store, untouched and
   neither fetched nor updated, after a successful pass with that toggle
   disabled.                                                                *)
C15_NeverDeletes ==
    /\ [][Keys(store) \subseteq Keys(store')]_vars
    /\ []RemovedAssetsKept

(* a successful pass with mutating Disabled over a store that holds the
   mutating webhook configuration an earlier pass created *)
C15_Witness ==
    \E p \in Workers :
        /\ Finished(p)
        /\ pass[p].result = "success"
        /\ SpecOf(p).MutatingWebhook = Ptr(WebhookDisabled)
        /\ prev.result = "success"
        /\ prev.spec # Nil
        /\ Deref(prev.spec).MutatingWebhook = Ptr(WebhookEnabled)
        /\ ObjectsOf(store, MutatingWebhookConfiguration) # {}
        /\ Count(p, "get", MutatingWebhookConfiguration) = 0
        /\ Count(p, "update", WebhookFile) = 1

----------------------------------------------------------------------------
(* The call of Reconcile worker p made last has returned *)
Returned(p) == pass[p].pc = "idle" /\ pass[p].req # ""
ReadOfResource(p, res) == calls[p] # <<>> /\ calls[p][1] = Event("getcr", "", res)

(* C16: a Reconcile call for a name other than 'gatekeeper' returns success
   and makes no remote call at all; a call that finds no Gatekeeper resource
   returns success and a call whose read of it fails returns a failure, each
   with that read as its only remote call; none of them changes the store.  *)
C16_EarlyReturns ==
    \A p \in Workers :
        /\ (pass[p].req # "" /\ pass[p].req # "gatekeeper") =>
                /\ Returned(p)
                /\ pass[p].result = "success"
                /\ calls[p] = <<>>
                /\ store = prev.store
        /\ ReadOfResource(p, "notfound") =>
                /\ Returned(p)
                /\ pass[p].result = "success"
                /\ Len(calls[p]) = 1
                /\ store = prev.store
        /\ ReadOfResource(p, "err") =>
                /\ Returned(p)
                /\ pass[p].result = "failure"
                /\ Len(calls[p]) = 1
                /\ store = prev.store

(* after a pass that created objects, a call for another name has returned *)
C16_Witness ==
    \E p \in Workers :
        /\ Returned(p)
        /\ pass[p].req = "other"
        /\ pass[p].result = "success"
        /\ prev.spec # Nil
        /\ Cardinality(store) > 1

----------------------------------------------------------------------------
(* Reconcile calls that may overlap: a caller that hands the same request to
   MaxConcurrentReconciles workers at a time.  A worker the caller does not
   run stays "off".  Remote calls fail for no reason other than the state of
   the cluster.  The calls start on the cluster an earlier pass left when it
   was aborted with MaxMissing of its assets still to write.                *)
ConcurrencyLevels == {1, 2}
RunningWorkers(n) == IF n = 1 THEN SerialWorkers ELSE Workers
ProcessedBy(spec) ==
    SelectSeq(getStaticAssets(spec), LAMBDA a : ~Skipped(a))
StoreLeftBy(spec, missing) ==
    LET done == ProcessedBy(spec)
    IN {Desired(spec, done[i]) : i \in 1..(Len(done) - missing)}
OffPass == [IdlePass EXCEPT !.pc = "off"]

InitConcurrent ==
    /\ gatekeeper \in {Nil} \cup {Ptr(s) : s \in RunSpecs}
    /\ platform \in Platforms
    /\ catalog = "healthy"
    /\ store \in {initial \cup (IF gatekeeper = Nil THEN {}
                                  ELSE StoreLeftBy(Deref(gatekeeper), MaxMissing)) :
                    initial \in InitialStores(platform)}
    /\ \E n \in ConcurrencyLevels :
          pass = [p \in Workers |-> IF p \in RunningWorkers(n) THEN IdlePass ELSE OffPass]
    /\ calls = [p \in Workers |-> <<>>]
    /\ prev = [result |-> "none", spec |-> Nil, store |-> {}]
    /\ budget = [passes |-> MaxPasses, faults |-> 0, edits |-> 0]
    /\ argCase = NoArgCase
    /\ ovCase = NoOvCase

NextConcurrent ==
    \E p \in Workers :
        \/ Reconcile(p)
        \/ LoopDone(p)
        \/ SkipAsset(p)
        \/ Prepare(p)
        \/ Fetch(p)
        \/ Update(p)
        \/ Create(p)

SpecConcurrent == InitConcurrent /\ [][NextConcurrent]_vars

Serialized == \E p \in Workers : pass[p].pc = "off"
Other(p) == CHOOSE q \in Workers : q # p
Creates(p) == {k \in Events(p) : calls[p][k].op = "create"}
CreateEvents(p, a, res) == {k \in Creates(p) : calls[p][k] = Event("create", a, res)}

(* The assets two overlapping passes have both found missing and have both
   called create for *)
RacedAssets ==
    LET created == [p \in Workers |-> {calls[p][k].asset : k \in Creates(p)}]
    IN {a \in Range(orderedStaticAssets) : \A p \in Workers : a \in created[p]}

(* C17: when two overlapping passes both call create for an asset, one of the
   two calls succeeds and the other fails, and the pass of the failed call
   has returned a failure with that call as its last step; the store never
   holds two objects with one key; and when the passes are serialized no
   create call fails.                                                        *)
C17_CreateRace ==
    /\ \A a \in RacedAssets :
          \E p \in Workers :
              /\ CreateEvents(p, a, "ok") # {}
              /\ CreateEvents(p, a, "err") = {}
              /\ CreateEvents(Other(p), a, "ok") = {}
              /\ Failed(Other(p))
              /\ LastEvent(Other(p)) = Event("create", a, "err")
    /\ Cardinality({Key(d) : d \in store}) = Cardinality(store)
    /\ Serialized =>
          \A p \in Workers : \A k \in Creates(p) : calls[p][k].res = "ok"

(* both passes called create for one asset; the winner went on to the end of
   its list and the loser stopped there *)
C17_Witness ==
    /\ ~Serialized
    /\ \E p \in Workers :
          /\ Finished(p) /\ pass[p].result = "success"
          /\ Failed(Other(p))
          /\ \E a \in RacedAssets :
                /\ CreateEvents(p, a, "ok") # {}
                /\ LastEvent(Other(p)) = Event("create", a, "err")
                /\ LastEvent(p).asset # a

----------------------------------------------------------------------------
(* The caller of Reconcile: controller-runtime puts a request whose Reconcile
   returned an error back on its queue and calls Reconcile for it again
   (gatekeeper_controller.go:161, 166 return the error to it).  The call is
   the one of Reconcile for the name 'gatekeeper', outside the budget of
   fresh requests.                                                           *)
Requeue(p) ==
    /\ pass[p].pc = "idle"
    /\ pass[p].result = "failure"
    /\ prev' = [result |-> pass[p].result, spec |-> pass[p].spec, store |-> store]
    /\ LET fresh == [IdlePass EXCEPT !.req = pass[p].req]
       IN \/ /\ MayFail
             /\ pass' = [pass EXCEPT ![p] = [fresh EXCEPT !.result = "failure"]]
             /\ calls' = [calls EXCEPT ![p] = <<Event("getcr", "", "err")>>]
             /\ budget' = Fault
          \/ /\ gatekeeper = Nil
             /\ pass' = [pass EXCEPT ![p] = [fresh EXCEPT !.result = "success"]]
             /\ calls' = [calls EXCEPT ![p] = <<Event("getcr", "", "notfound")>>]
             /\ budget' = budget
          \/ /\ gatekeeper # Nil
             /\ pass' = [pass EXCEPT ![p] =
                   [fresh EXCEPT !.pc = "loop", !.spec = gatekeeper,
                                 !.assets = getStaticAssets(Deref(gatekeeper)),
                                 !.idx = 1]]
             /\ calls' = [calls EXCEPT ![p] = <<Event("getcr", "", "ok")>>]
             /\ budget' = budget
    /\ UNCHANGED <<gatekeeper, store, frame>>

(* A request that failed is called again before a fresh one is taken *)
Trigger(p) == pass[p].result # "failure" /\ Reconcile(p)

(* What a worker does on its own once Reconcile is called, and the requeue *)
Step(p) ==
    \/ LoopDone(p)
    \/ SkipAsset(p)
    \/ Prepare(p)
    \/ Fetch(p)
    \/ Update(p)
    \/ Create(p)
    \/ Requeue(p)

NextLive == \E p \in SerialWorkers : Trigger(p) \/ Step(p)

(* The states in which Prepare and Requeue can take a step: the guards of the
   two actions, each of which has a disjunct that needs nothing more *)
AtPrepare(p) ==
    /\ pass[p].pc = "loop"
    /\ pass[p].idx <= Len(pass[p].assets)
    /\ ~Skipped(CurrentAsset(p))
AtRequeue(p) == pass[p].pc = "idle" /\ pass[p].result = "failure"

(* The steps of a call other than Prepare *)
Work(p) == LoopDone(p) \/ SkipAsset(p) \/ Fetch(p) \/ Update(p) \/ Create(p)

(* A worker runs its call to the end and the caller requeues a failed request:
   weak fairness on the worker's steps and on the requeue, written out for
   Prepare and Requeue with the states in which they can take a step.  Fresh
   requests come when they come.                                             *)
Fairness(p) ==
    /\ WF_vars(Work(p))
    /\ []<>(~AtPrepare(p)) \/ []<><<Prepare(p)>>_vars
    /\ []<>(~AtRequeue(p)) \/ []<><<Requeue(p)>>_vars

(* The manifests are the healthy ones and the resource is not edited; remote
   calls fail MaxFaults times at most.                                       *)
SpecLive ==
    /\ InitEdits
    /\ [][NextLive]_vars
    /\ \A p \in SerialWorkers : Fairness(p)

Running(p) == pass[p].pc \notin {"idle", "off"}
Writes(p, a) == Count(p, "create", a) + Count(p, "update", a)

(* Every asset the pass processes has its object in the store *)
Deployed(p) ==
    \A i \in DOMAIN Processed(p) :
        InStore(Key(Desired(SpecOf(p), Processed(p)[i]))) # {}
Succeeded(p) == Finished(p) /\ pass[p].result = "success"

(* C18: a pass makes at most one fetch and at most one write for each asset
   and comes to its end; a pass that returned success has left an object in
   the store for each asset it processes; and once a pass for an existing
   Gatekeeper resource has failed, the requeued calls lead to a pass that
   returns success.                                                          *)
C18_TerminatesAndConverges ==
    /\ [](\A p \in Workers : \A a \in Range(orderedStaticAssets) :
            Count(p, "get", a) <= 1 /\ Writes(p, a) <= 1)
    /\ [](\A p \in Workers : Succeeded(p) => Deployed(p))
    /\ \A p \in SerialWorkers : Running(p) ~> ~Running(p)
    /\ \A p \in SerialWorkers :
          (Failed(p) /\ gatekeeper # Nil) ~> (Succeeded(p) /\ Deployed(p))

(* a pass failed, the request was requeued, and the pass of the requeued call
   returned success with every object in place *)
C18_Witness ==
    \E p \in SerialWorkers :
        /\ Succeeded(p) /\ Deployed(p)
        /\ prev.result = "failure"
        /\ budget.faults = 0
        /\ Len(Processed(p)) > 1

====
